---- MODULE Spec2Model ----
(***************************************************************************)
(* freedesktop_entry_parser: the byte-level tokenizer (src/parser.rs) and  *)
(* the indexed store built over it (src/internal.rs, src/lib.rs).          *)
(*                                                                         *)
(* Bytes are integers 0..255, byte slices are sequences of bytes.  An      *)
(* Option is a sequence of length 0 (None) or 1 (Some).                    *)
(***************************************************************************)
EXTENDS Integers, Sequences, FiniteSets, TLC

VARIABLES doc, data, rem, found_start, item, yielded, tick, store, ret, pc

vars == <<doc, data, rem, found_start, item, yielded, tick, store, ret, pc>>

(***************************************************************************)
(* Bytes the grammar singles out.                                          *)
(***************************************************************************)
LBRACKET == 91
RBRACKET == 93
EQUALS == 61
NEWLINE == 10
TAB == 9
CR == 13
SPACE == 32
HASH == 35

None == <<>>
Some(x) == <<x>>

(***************************************************************************)
(* nom results.  Ok carries the remaining input and the output, Err the    *)
(* input at the point of failure and nom's ErrorKind.  Try is the `?`      *)
(* operator: the error is returned, a success is passed on.                *)
(***************************************************************************)
Ok(r, o) == [ok |-> TRUE, rem |-> r, out |-> o, code |-> "none"]
Err(i, c) == [ok |-> FALSE, rem |-> i, out |-> <<>>, code |-> c]

Try(r, K(_)) == IF r.ok THEN K(r) ELSE r

Drop(s, n) == SubSeq(s, n + 1, Len(s))

SplitAt(s, i) == Ok(Drop(s, i - 1), SubSeq(s, 1, i - 1))

(* The index of the first byte of s in stop, Len(s) + 1 if there is none. *)
TillIdx(stop, s) ==
    IF \E i \in 1..Len(s) : s[i] \in stop
    THEN CHOOSE i \in 1..Len(s) : s[i] \in stop /\ \A j \in 1..(i - 1) : s[j] \notin stop
    ELSE Len(s) + 1

(* nom::bytes::complete::take_till: the longest prefix with no byte in *)
(* stop; never fails.                                                    *)
take_till(stop, s) == SplitAt(s, TillIdx(stop, s))

(* take_till1 that fails at its input when no stop byte is found. *)
take_till1_needs_stop(stop, s) ==
    IF s = <<>> \/ s[1] \in stop \/ TillIdx(stop, s) > Len(s) THEN Err(s, "TakeTill1")
    ELSE take_till(stop, s)

(* take_till1: as take_till, but an empty match is an error. *)
take_till1(stop, s) ==
    IF s = <<>> \/ s[1] \in stop THEN Err(s, "TakeTill1") ELSE take_till(stop, s)

(* tag of a single byte. *)
tag(b, s) ==
    IF s /= <<>> /\ s[1] = b THEN Ok(Drop(s, 1), <<b>>) ELSE Err(s, "Tag")

Bytes == 0..255

Whitespace == {NEWLINE, TAB, CR, SPACE}

(* not_whitespace without the test for the tab. *)
not_whitespace_or_tab == Bytes \ (Whitespace \ {TAB})

not_whitespace == Bytes \ Whitespace

(* header: delimited(tag("["), take_till1(|c| c == ']'), tag("]")) *)
header(input) ==
    Try(tag(LBRACKET, input), LAMBDA open :
    Try(take_till1({RBRACKET}, open.rem), LAMBDA title :
    Try(tag(RBRACKET, title.rem), LAMBDA close :
    Ok(close.rem, title.out))))

(* next_line: skip whitespace, then a comment through its line, repeat. *)
(* Its take_till calls cannot fail, so it always returns Ok(rem).       *)
RECURSIVE next_line(_)
next_line_rem(r) ==
    IF r /= <<>> /\ r[1] = HASH
    THEN next_line(take_till({NEWLINE}, r).rem)
    ELSE r

next_line(input) ==
    IF input = <<>> THEN <<>>
    ELSE next_line_rem(take_till(not_whitespace, input).rem)

find_start(input) == take_till({LBRACKET}, input)

ParamBytes(p, a) == [param |-> p, attr_name |-> a]

(* params without the tag: the key starts at the bracket. *)
params_keeps_bracket(input) ==
    Try(take_till({LBRACKET}, input), LAMBDA name :
    Try(take_till({RBRACKET}, name.rem), LAMBDA p :
    Ok(p.rem, ParamBytes(p.out, name.out))))

(* params: terminated(take_till('['), tag("[")), then take_till(']') *)
params(input) ==
    Try(take_till({LBRACKET}, input), LAMBDA name :
    Try(tag(LBRACKET, name.rem), LAMBDA open :
    Try(take_till({RBRACKET}, open.rem), LAMBDA p :
    Ok(p.rem, ParamBytes(p.out, name.out)))))

(* Result::ok(): the output of a success, None for an error. *)
ok(r) == IF r.ok THEN Some(r.out) ELSE None

AttrBytes(n, v, p) == [name |-> n, value |-> v, param |-> p]

(* attr whose value ends at a `#` as well as at a newline. *)
attr_value_to_hash(input) ==
    IF input /= <<>> /\ input[1] = LBRACKET THEN Err(input, "Complete")
    ELSE Try(take_till({EQUALS}, input), LAMBDA name :
         Try(tag(EQUALS, name.rem), LAMBDA eq :
         Try(take_till({NEWLINE, HASH}, eq.rem), LAMBDA value :
         Ok(next_line(value.rem),
            AttrBytes(name.out, value.out, ok(params(name.out)))))))

attr(input) ==
    IF input /= <<>> /\ input[1] = LBRACKET THEN Err(input, "Complete")
    ELSE Try(take_till({EQUALS}, input), LAMBDA name :
         Try(tag(EQUALS, name.rem), LAMBDA eq :
         Try(take_till({NEWLINE}, eq.rem), LAMBDA value :
         Ok(next_line(value.rem),
            AttrBytes(name.out, value.out, ok(params(name.out)))))))

(* nom::multi::many1(attr): the loop after the first success; r is the  *)
(* result of attr on i.                                                  *)
RECURSIVE many1_loop(_, _)
many1_step(i, acc, r) ==
    IF ~r.ok THEN Ok(i, acc)
    ELSE IF Len(r.rem) = Len(i) THEN Err(i, "Many1")
    ELSE many1_loop(r.rem, Append(acc, r.out))

many1_loop(i, acc) == many1_step(i, acc, attr(i))

(* many0 in place of many1: a section without attributes is accepted. *)
many0_attr(input) == many1_loop(input, <<>>)

many1_attr(input) ==
    Try(attr(input), LAMBDA r : many1_loop(r.rem, <<r.out>>))

SectionBytes(t, a) == [title |-> t, attrs |-> a]

section(input) ==
    Try(header(input), LAMBDA h :
    Try(many1_attr(next_line(h.rem)), LAMBDA attrs :
    Ok(attrs.rem, SectionBytes(h.out, attrs.out))))

(***************************************************************************)
(* std::str::from_utf8, as called by parse_str and by the conversion of a  *)
(* nom error: Utf8Width is the length of the well-formed sequence that     *)
(* starts s, 0 if there is none.                                           *)
(***************************************************************************)
Cont(s, i) == Len(s) >= i /\ s[i] \in 128..191

Utf8Width(s) ==
    IF s[1] < 128 THEN 1
    ELSE IF s[1] \in 194..223 THEN (IF Cont(s, 2) THEN 2 ELSE 0)
    ELSE IF s[1] = 224 THEN (IF Len(s) >= 2 /\ s[2] \in 160..191 /\ Cont(s, 3) THEN 3 ELSE 0)
    ELSE IF s[1] \in (225..236) \cup (238..239) THEN (IF Cont(s, 2) /\ Cont(s, 3) THEN 3 ELSE 0)
    ELSE IF s[1] = 237 THEN (IF Len(s) >= 2 /\ s[2] \in 128..159 /\ Cont(s, 3) THEN 3 ELSE 0)
    ELSE IF s[1] = 240 THEN (IF Len(s) >= 2 /\ s[2] \in 144..191 /\ Cont(s, 3) /\ Cont(s, 4) THEN 4 ELSE 0)
    ELSE IF s[1] \in 241..243 THEN (IF Cont(s, 2) /\ Cont(s, 3) /\ Cont(s, 4) THEN 4 ELSE 0)
    ELSE IF s[1] = 244 THEN (IF Len(s) >= 2 /\ s[2] \in 128..143 /\ Cont(s, 3) /\ Cont(s, 4) THEN 4 ELSE 0)
    ELSE 0

RECURSIVE from_utf8_ok(_)
from_utf8_width(s, w) == w > 0 /\ from_utf8_ok(Drop(s, w))

from_utf8_ok(s) == IF s = <<>> THEN TRUE ELSE from_utf8_width(s, Utf8Width(s))

(***************************************************************************)
(* ParseError (src/errors.rs).  kind is nom's ErrorKind for Other; valid   *)
(* tells ErrorBytes::Valid from ErrorBytes::Invalid.                       *)
(***************************************************************************)
ParseError(t, b, v, k) == [type |-> t, bytes |-> b, valid |-> v, kind |-> k]

(* impl From<nom::Err<NomError<&[u8]>>> for ParseError.  The complete    *)
(* parsers used never return nom::Err::Incomplete.                       *)
FromNomErr(e) == ParseError("Other", e.rem, from_utf8_ok(e.rem), e.code)

Utf8Error(b) == ParseError("Utf8Error", b, FALSE, "none")

NoError == ParseError("none", <<>>, TRUE, "none")

(* parse_str without the validation. *)
parse_str_unchecked(input) == [ok |-> TRUE, str |-> input, err |-> NoError]

(* parse_str: Ok(the same bytes, as text) or Utf8Error{bytes}. *)
parse_str(input) ==
    IF from_utf8_ok(input) THEN [ok |-> TRUE, str |-> input, err |-> NoError]
    ELSE [ok |-> FALSE, str |-> <<>>, err |-> Utf8Error(input)]

(***************************************************************************)
(* EntryIter.  An item of the iterator is None, Some(Ok(section)) or       *)
(* Some(Err(error)).                                                       *)
(***************************************************************************)
NoSection == SectionBytes(<<>>, <<>>)

ItemNone == [tag |-> "None", section |-> NoSection, error |-> NoError]
ItemOk(s) == [tag |-> "Ok", section |-> s, error |-> NoError]
ItemErr(e) == [tag |-> "Err", section |-> NoSection, error |-> e]

EntryIter(r, f) == [rem |-> r, found_start |-> f]

(* parse_entry: the iterator over the whole input. *)
parse_entry(input) == EntryIter(input, FALSE)

(* The first statement of next_section: self.rem once the start is found. *)
skip_preamble(it) == IF ~it.found_start THEN find_start(it.rem).rem ELSE it.rem

(* next_section that stores the failed parse's position in self.rem. *)
section_result_advances(r0, s) ==
    IF ~s.ok
    THEN [item |-> ItemErr(FromNomErr(s)), it |-> EntryIter(s.rem, TRUE)]
    ELSE [item |-> ItemOk(s.out), it |-> EntryIter(s.rem, TRUE)]

(* The rest of next_section: r0 is self.rem, s the result of section. *)
section_result(r0, s) ==
    IF ~s.ok
    THEN [item |-> ItemErr(FromNomErr(s)), it |-> EntryIter(r0, TRUE)]
    ELSE [item |-> ItemOk(s.out), it |-> EntryIter(s.rem, TRUE)]

section_from(r0) == section_result(r0, section(find_start(r0).rem))

(* EntryIter::next_section: the result and the iterator after the call. *)
next_section(it) == section_from(skip_preamble(it))

(* Iterator::next for EntryIter *)
EntryIter_next(it) ==
    IF it.rem = <<>> THEN [item |-> ItemNone, it |-> it]
    ELSE next_section(it)

(* parse_entry(..).collect::<Result<Vec<_>, _>>(): stops at the first Err. *)
RECURSIVE collect(_, _)
collect_item(n, acc) ==
    IF n.item.tag = "None" THEN [ok |-> TRUE, sections |-> acc, err |-> NoError]
    ELSE IF n.item.tag = "Err" THEN [ok |-> FALSE, sections |-> <<>>, err |-> n.item.error]
    ELSE collect(n.it, Append(acc, n.item.section))

collect(it, acc) == collect_item(EntryIter_next(it), acc)

(***************************************************************************)
(* The index (src/internal.rs).  A HashMap is a function on its key set.   *)
(***************************************************************************)
EmptyMap == [k \in {} |-> <<>>]

Insert(m, k, v) == [x \in (DOMAIN m) \cup {k} |-> IF x = k THEN v ELSE m[x]]

AttrValue(v, p) == [value |-> v, param_map |-> p]

(* get_or_insert_with(ParamMap::new) *)
param_map_or_new(a) == IF a.param_map = None THEN EmptyMap ELSE a.param_map[1]

(* insert_param as a plain HashMap::insert: what was merged is lost. *)
insert_param_overwrites(map, name, param, value) ==
    Insert(map, name, AttrValue(None, Some(Insert(EmptyMap, param, value))))

(* The Some(param) arm of Internal::new: entry().and_modify().or_insert() *)
insert_param(map, name, param, value) ==
    IF name \in DOMAIN map
    THEN Insert(map, name,
                AttrValue(map[name].value,
                          Some(Insert(param_map_or_new(map[name]), param, value))))
    ELSE Insert(map, name, AttrValue(None, Some(Insert(EmptyMap, param, value))))

(* insert_plain without the and_modify: an earlier plain value is kept. *)
insert_plain_keeps_first(map, name, value) ==
    IF name \in DOMAIN map /\ map[name].value /= None THEN map
    ELSE IF name \in DOMAIN map
    THEN Insert(map, name, AttrValue(Some(value), map[name].param_map))
    ELSE Insert(map, name, AttrValue(Some(value), None))

(* The None arm of Internal::new *)
insert_plain(map, name, value) ==
    IF name \in DOMAIN map
    THEN Insert(map, name, AttrValue(Some(value), map[name].param_map))
    ELSE Insert(map, name, AttrValue(Some(value), None))

MapOk(m) == [ok |-> TRUE, map |-> m, err |-> NoError]
MapErr(e) == [ok |-> FALSE, map |-> EmptyMap, err |-> e]

(* parse_str(..)?: the decode error, or the text passed on. *)
TryStr(r, K(_)) == IF r.ok THEN K(r.str) ELSE MapErr(r.err)

TryMap(r, K(_)) == IF r.ok THEN K(r.map) ELSE r

(* One iteration of `for attr_bytes in section_bytes.attrs`. *)
index_attr(map, a) ==
    TryStr(parse_str(a.value), LAMBDA value :
      IF a.param /= None
      THEN TryStr(parse_str(a.param[1].attr_name), LAMBDA name :
           TryStr(parse_str(a.param[1].param), LAMBDA param :
           MapOk(insert_param(map, name, param, value))))
      ELSE TryStr(parse_str(a.name), LAMBDA name :
           MapOk(insert_plain(map, name, value))))

RECURSIVE index_attrs(_, _, _)
index_attrs(attrs, i, map) ==
    IF i > Len(attrs) THEN MapOk(map)
    ELSE TryMap(index_attr(map, attrs[i]), LAMBDA m : index_attrs(attrs, i + 1, m))

(* index_section that adds to the attributes already filed under the *)
(* title.                                                             *)
index_section_merges(sections, sb) ==
    TryStr(parse_str(sb.title), LAMBDA title :
    TryMap(index_attrs(sb.attrs, 1,
                       IF title \in DOMAIN sections THEN sections[title] ELSE EmptyMap),
           LAMBDA m : MapOk(Insert(sections, title, m))))

(* One iteration of `for section_bytes in entry_bytes`. *)
index_section(sections, sb) ==
    TryStr(parse_str(sb.title), LAMBDA title :
    TryMap(index_attrs(sb.attrs, 1, EmptyMap), LAMBDA m :
    MapOk(Insert(sections, title, m))))

RECURSIVE index_sections(_, _, _)
index_sections(entry_bytes, i, sections) ==
    IF i > Len(entry_bytes) THEN MapOk(sections)
    ELSE TryMap(index_section(sections, entry_bytes[i]),
                LAMBDA m : index_sections(entry_bytes, i + 1, m))

(* struct Internal { map: Option<InternalMap>, data } *)
Internal(m, d) == [map |-> m, data |-> d]

Unbuilt == [state |-> "none", this |-> Internal(None, <<>>), err |-> NoError]
Built(t) == [state |-> "ok", this |-> t, err |-> NoError]
Failed(e) == [state |-> "err", this |-> Internal(None, <<>>), err |-> e]

(* The boxed struct returned with its map field still None. *)
map_not_installed(sections) == None

(* The map Internal::new installs in the boxed struct before returning it. *)
installed_map(sections) == Some(sections)

(* Internal::new after the collect: the index is built and installed. *)
index_result(d, r) ==
    IF ~r.ok THEN Failed(r.err) ELSE Built(Internal(installed_map(r.map), d))

index_entry(d, entry_bytes) ==
    IF ~entry_bytes.ok THEN Failed(entry_bytes.err)
    ELSE index_result(d, index_sections(entry_bytes.sections, 1, EmptyMap))

(* Internal::new *)
Internal_new(d) == index_entry(d, collect(parse_entry(d), <<>>))

(***************************************************************************)
(* Lookups.  A lookup result is the returned Option (a bool is Some(bool)) *)
(* or a panic: get_section unwraps the map field.                          *)
(***************************************************************************)
Returned(v) == [panic |-> FALSE, val |-> v]
Panicked == [panic |-> TRUE, val |-> None]

(* `?` on an Option: None is returned, Some(x) is passed on. *)
TryOpt(r, K(_)) == IF r.panic \/ r.val = None THEN r ELSE K(r.val[1])

(* Internal::get_section: self.map.as_ref().unwrap().get(name) *)
get_section(this, section_name) ==
    IF this.map = None THEN Panicked
    ELSE IF section_name \in DOMAIN this.map[1]
    THEN Returned(Some(this.map[1][section_name]))
    ELSE Returned(None)

(* AttrMap::get_attr *)
AttrMap_get_attr(attr_map, attr_name) ==
    IF attr_name \in DOMAIN attr_map THEN Some(attr_map[attr_name]) ELSE None

(* ParamMap::get_param *)
get_param(param_map, param_val) ==
    IF param_val \in DOMAIN param_map THEN Some(param_map[param_val]) ELSE None

(* AttrValue::get_value *)
get_value(attr_val) == attr_val.value

(* Internal::get; param_name is an Option. *)
get(this, section_name, attr_name, param_name) ==
    TryOpt(get_section(this, section_name), LAMBDA section_map :
    TryOpt(Returned(AttrMap_get_attr(section_map, attr_name)), LAMBDA attr_val :
      IF param_name /= None
      THEN TryOpt(Returned(attr_val.param_map), LAMBDA param_map :
           Returned(get_param(param_map, param_name[1])))
      ELSE Returned(get_value(attr_val))))

(* Internal::get_attr *)
get_attr(this, section_name, attr_name) ==
    TryOpt(get_section(this, section_name), LAMBDA section_map :
    Returned(AttrMap_get_attr(section_map, attr_name)))

(* Option::is_some on a lookup result *)
is_some(r) == IF r.panic THEN r ELSE Returned(Some(r.val /= None))

(* Internal::has_section, Entry::has_section *)
has_section(this, section_name) == is_some(get_section(this, section_name))

(* AttrSelector::has_attr *)
has_attr(this, section_name, attr_name) == is_some(get_attr(this, section_name, attr_name))

(***************************************************************************)
(* Iteration over the keys of a map.  HashMap::keys visits every key once, *)
(* in an order the map chooses: a KeysIter is the set of the sequences it  *)
(* may yield.                                                              *)
(***************************************************************************)
KeysIter(m) ==
    {o \in [1..Cardinality(DOMAIN m) -> DOMAIN m] : \A k \in DOMAIN m : \E i \in DOMAIN o : o[i] = k}

(* Internal::section_names_iter: self.map.as_ref().unwrap().keys() *)
section_names_iter(this) ==
    IF this.map = None THEN Panicked ELSE Returned(Some(KeysIter(this.map[1])))

(* Internal::attr_names_iter *)
attr_names_iter(this, section_name) ==
    TryOpt(get_section(this, section_name), LAMBDA section_map :
    Returned(Some(KeysIter(section_map))))

(* param_names_iter with an empty iterator where there is no ParamMap. *)
param_names_iter_or_empty(this, section_name, attr_name) ==
    TryOpt(get_section(this, section_name), LAMBDA section_map :
    TryOpt(Returned(AttrMap_get_attr(section_map, attr_name)), LAMBDA attr_val :
    Returned(Some(KeysIter(param_map_or_new(attr_val))))))

(* Internal::param_names_iter *)
param_names_iter(this, section_name, attr_name) ==
    TryOpt(get_section(this, section_name), LAMBDA section_map :
    TryOpt(Returned(AttrMap_get_attr(section_map, attr_name)), LAMBDA attr_val :
    TryOpt(Returned(attr_val.param_map), LAMBDA param_map :
    Returned(Some(KeysIter(param_map))))))

(***************************************************************************)
(* AttrIter (src/lib.rs): the attributes of a section, one struct Attr per *)
(* name its AttrNamesIter yields.                                          *)
(***************************************************************************)
(* AttrValue::get_params *)
get_params(attr_val) == attr_val.param_map

(* struct Attr as built by AttrIter::next *)
AttrItem(section_name, name, attr_val) ==
    [section_name |-> section_name, name |-> name, value |-> get_value(attr_val),
     attr |-> attr_val]

(* has_value that also counts a parameterized value. *)
has_value_or_params(a) == get_value(a.attr) /= None \/ get_params(a.attr) /= None

(* Attr::has_value *)
has_value(a) == get_value(a.attr) /= None

(* Attr::has_params *)
has_params(a) == get_params(a.attr) /= None

(* AttrIter::next once the name iterator has yielded attr_name *)
AttrIter_next(this, section_name, attr_name) ==
    TryOpt(get_attr(this, section_name, attr_name), LAMBDA attr_val :
    Returned(Some(AttrItem(section_name, attr_name, attr_val))))

(* The items of an AttrIter whose name iterator yields order: the first   *)
(* None ends them.                                                        *)
RECURSIVE AttrIter_collect(_, _, _, _, _)
AttrIter_step(this, section_name, order, i, acc, r) ==
    IF r.panic \/ r.val = None THEN acc
    ELSE AttrIter_collect(this, section_name, order, i + 1, Append(acc, r.val[1]))

AttrIter_collect(this, section_name, order, i, acc) ==
    IF i > Len(order) THEN acc
    ELSE AttrIter_step(this, section_name, order, i, acc,
                       AttrIter_next(this, section_name, order[i]))

(***************************************************************************)
(* Inputs.  A document is a sequence of pieces; the buffer handed to the   *)
(* parser is their concatenation.                                          *)
(***************************************************************************)
MaxPieces == 3
MaxTokPieces == 3
MaxUtf8Pieces == 3
MaxLen == 5
MaxLivePieces == 3
MaxCutPieces == 3

Hdr(t) == [kind |-> "hdr", a |-> t, b |-> <<>>]
Attr(n, v) == [kind |-> "attr", a |-> n, b |-> v]
AttrEof(n, v) == [kind |-> "attr_eof", a |-> n, b |-> v]
Skip(x) == [kind |-> "skip", a |-> x, b |-> <<>>]
Raw(x) == [kind |-> "raw", a |-> x, b |-> <<>>]

(* The bytes of a piece: `[title]`, `name=value\n`, `name=value` at the *)
(* end of the input, or the bytes as they are.                          *)
Render(p) ==
    CASE p.kind = "hdr" -> <<LBRACKET>> \o p.a \o <<RBRACKET>>
      [] p.kind = "attr" -> p.a \o <<EQUALS>> \o p.b \o <<NEWLINE>>
      [] p.kind = "attr_eof" -> p.a \o <<EQUALS>> \o p.b
      [] OTHER -> p.a

RECURSIVE Flatten(_)
Flatten(d) == IF d = <<>> THEN <<>> ELSE Render(Head(d)) \o Flatten(Tail(d))

SeqsUpTo(S, n) == UNION {[1..k -> S] : k \in 0..n}

(* [S] [T]   A=X A=Y A[p]=X A[p]=Y A[q]=X B=X *)
PiecesIndex ==
    { Hdr(<<83>>), Hdr(<<84>>),
      Attr(<<65>>, <<88>>), Attr(<<65>>, <<89>>),
      Attr(<<65, 91, 112, 93>>, <<88>>), Attr(<<65, 91, 112, 93>>, <<89>>),
      Attr(<<65, 91, 113, 93>>, <<88>>), Attr(<<66>>, <<88>>) }

(* [S] [T ]   A=X   `A[p]= =[# `   A[q=Y   `=`   `B =X` without a      *)
(* newline   a blank run   the comment `#[=`   the stray line `z`       *)
PiecesTok ==
    { Hdr(<<83>>), Hdr(<<84, SPACE>>),
      Attr(<<65>>, <<88>>),
      Attr(<<65, 91, 112, 93>>, <<SPACE, EQUALS, LBRACKET, HASH, SPACE>>),
      Attr(<<65, 91, 113>>, <<89>>),
      Attr(<<>>, <<>>),
      AttrEof(<<66, SPACE>>, <<88>>),
      Skip(<<SPACE, TAB, CR, NEWLINE>>),
      Skip(<<HASH, LBRACKET, EQUALS, NEWLINE>>),
      Raw(<<122, NEWLINE>>) }

(* [S] and a title, a name, a value, a base name, a parameter key and   *)
(* the tail of a parameterized name that hold the byte 255; 195 169 is  *)
(* a two-byte character.                                                *)
PiecesUtf8 ==
    { Hdr(<<83>>), Hdr(<<255>>),
      Attr(<<65>>, <<195, 169>>),
      Attr(<<65, 255>>, <<88>>),
      Attr(<<65>>, <<195>>),
      Attr(<<255, 91, 112, 93>>, <<88>>),
      Attr(<<65, 91, 169, 93>>, <<88>>),
      Attr(<<65, 91, 112, 93, 255>>, <<88>>) }

RawBytes == {LBRACKET, RBRACKET, EQUALS, NEWLINE, HASH, 65}

QSections == {<<83>>, <<84>>}
QAttrs == {<<65>>, <<66>>}
QParams == {None, Some(<<112>>), Some(<<113>>)}

NoRet == [op |-> "none", section |-> <<>>, attr |-> <<>>, param |-> None, res |-> Returned(None)]
Ret(o, s, a, p, r) == [op |-> o, section |-> s, attr |-> a, param |-> p, res |-> r]

InitWith(d) ==
    /\ doc = d
    /\ data = Flatten(d)
    /\ rem = parse_entry(data).rem
    /\ found_start = parse_entry(data).found_start
    /\ item = ItemNone
    /\ yielded = <<>>
    /\ tick = 0
    /\ store = Unbuilt
    /\ ret = NoRet
    /\ pc = "start"

(* Documents that open section S. *)
Init == \E d \in SeqsUpTo(PiecesIndex, MaxPieces) : InitWith(<<Hdr(<<83>>)>> \o d)

(* Nothing, or a first section that is well formed. *)
Prefixes == {<<>>, <<Hdr(<<83>>), Attr(<<65>>, <<88>>)>>}

InitTok ==
    \E pre \in Prefixes, d \in SeqsUpTo(PiecesTok, MaxTokPieces) : InitWith(pre \o d)

InitUtf8 ==
    \E pre \in Prefixes, d \in SeqsUpTo(PiecesUtf8, MaxUtf8Pieces) : InitWith(pre \o d)

RawDoc(b) == [i \in DOMAIN b |-> Raw(<<b[i]>>)]

InitRaw == \E b \in SeqsUpTo(RawBytes, MaxLen) : InitWith(RawDoc(b))

(* The caller's record of one next(): the item, the iterator after it,  *)
(* and the sections collected so far.                                    *)
Yield(n) ==
    /\ item' = n.item
    /\ rem' = n.it.rem
    /\ found_start' = n.it.found_start
    /\ yielded' = IF n.item.tag = "Ok" THEN Append(yielded, n.item.section) ELSE yielded

(* One call of next() on the low-level iterator; tick is the parity of  *)
(* the number of calls made.                                             *)
IterNext ==
    /\ pc \in {"start", "iter"}
    /\ Yield(EntryIter_next(EntryIter(rem, found_start)))
    /\ tick' = 1 - tick
    /\ pc' = "iter"
    /\ UNCHANGED <<doc, data, store, ret>>

(* Entry::parse: Internal::new on the whole buffer. *)
Build ==
    /\ pc = "start"
    /\ store' = Internal_new(data)
    /\ pc' = IF store'.state = "ok" THEN "built" ELSE "failed"
    /\ UNCHANGED <<doc, data, rem, found_start, item, yielded, tick, ret>>

Get ==
    /\ pc = "built"
    /\ \E s \in QSections, a \in QAttrs, p \in QParams :
         ret' = Ret("get", s, a, p, get(store.this, s, a, p))
    /\ UNCHANGED <<doc, data, rem, found_start, item, yielded, tick, store, pc>>

HasSection ==
    /\ pc = "built"
    /\ \E s \in QSections :
         ret' = Ret("has_section", s, <<>>, None, has_section(store.this, s))
    /\ UNCHANGED <<doc, data, rem, found_start, item, yielded, tick, store, pc>>

HasAttr ==
    /\ pc = "built"
    /\ \E s \in QSections, a \in QAttrs :
         ret' = Ret("has_attr", s, a, None, has_attr(store.this, s, a))
    /\ UNCHANGED <<doc, data, rem, found_start, item, yielded, tick, store, pc>>

(* The caller drains the iterator r that was returned to it, if any. *)
CollectKeys(o, s, a, r) ==
    IF r.panic \/ r.val = None THEN ret' = Ret(o, s, a, None, r)
    ELSE \E order \in r.val[1] : ret' = Ret(o, s, a, None, Returned(Some(order)))

SectionNames ==
    /\ pc = "built"
    /\ CollectKeys("section_names", <<>>, <<>>, section_names_iter(store.this))
    /\ UNCHANGED <<doc, data, rem, found_start, item, yielded, tick, store, pc>>

AttrNames ==
    /\ pc = "built"
    /\ \E s \in QSections :
         CollectKeys("attr_names", s, <<>>, attr_names_iter(store.this, s))
    /\ UNCHANGED <<doc, data, rem, found_start, item, yielded, tick, store, pc>>

ParamNames ==
    /\ pc = "built"
    /\ \E s \in QSections, a \in QAttrs :
         CollectKeys("param_names", s, a, param_names_iter(store.this, s, a))
    /\ UNCHANGED <<doc, data, rem, found_start, item, yielded, tick, store, pc>>

(* AttrSelector::attrs drained: r is the Option<AttrNamesIter> it holds; *)
(* with None the iterator yields nothing.                                *)
CollectAttrs(s, r) ==
    IF r.panic THEN ret' = Ret("attrs", s, <<>>, None, r)
    ELSE IF r.val = None THEN ret' = Ret("attrs", s, <<>>, None, Returned(Some(<<>>)))
    ELSE \E order \in r.val[1] :
           ret' = Ret("attrs", s, <<>>, None,
                      Returned(Some(AttrIter_collect(store.this, s, order, 1, <<>>))))

Attrs ==
    /\ pc = "built"
    /\ \E s \in QSections : CollectAttrs(s, attr_names_iter(store.this, s))
    /\ UNCHANGED <<doc, data, rem, found_start, item, yielded, tick, store, pc>>

Next ==
    \/ IterNext \/ Build \/ Get \/ HasSection \/ HasAttr
    \/ SectionNames \/ AttrNames \/ ParamNames \/ Attrs

Spec == Init /\ [][Next]_vars

SpecTok == InitTok /\ [][Next]_vars

SpecUtf8 == InitUtf8 /\ [][Next]_vars

SpecRaw == InitRaw /\ [][Next]_vars

(* [S]   A=X   a comment   and input cut short: `[U`   `[`   `A`   *)
PiecesCut ==
    { Hdr(<<83>>),
      Attr(<<65>>, <<88>>),
      Skip(<<HASH, SPACE, NEWLINE>>),
      Raw(<<LBRACKET, 85>>),
      Raw(<<LBRACKET>>),
      Raw(<<65>>) }

InitCut ==
    \E pre \in Prefixes, d \in SeqsUpTo(PiecesCut, MaxCutPieces) : InitWith(pre \o d)

SpecCut == InitCut /\ [][Next]_vars

(* [S]   A=X   `B =X` without a newline   the comment `#[=`   the stray  *)
(* line `z`                                                              *)
PiecesLive ==
    { Hdr(<<83>>),
      Attr(<<65>>, <<88>>),
      AttrEof(<<66, SPACE>>, <<88>>),
      Skip(<<HASH, LBRACKET, EQUALS, NEWLINE>>),
      Raw(<<122, NEWLINE>>) }

InitLive == \E d \in SeqsUpTo(PiecesLive, MaxLivePieces) : InitWith(d)

(* A call of next(): the only step that changes tick. *)
Calling == pc \in {"start", "iter"} /\ tick' = 1 - tick

(* A caller that keeps calling next() for as long as it can. *)
SpecLive == InitLive /\ [][Next]_vars /\ WF_tick(Calling)

(***************************************************************************)
(* What the input declares, read off the section records ss that the       *)
(* tokenizer yields for it.                                                *)
(***************************************************************************)
Sections == collect(parse_entry(data), <<>>).sections

HasByte(b, s) == \E i \in 1..Len(s) : s[i] = b

(* The records titled t. *)
Titled(ss, t) == {i \in 1..Len(ss) : ss[i].title = t}

IsLast(i, I) == i \in I /\ \A k \in I : k <= i

LastOf(J) == CHOOSE j \in J : \A l \in J : l <= j

(* The base name and the parameter key of a raw name, by position. *)
FirstAt(b, s) == CHOOSE i \in 1..Len(s) : s[i] = b /\ \A j \in 1..(i - 1) : s[j] /= b

UpTo(b, s) == IF HasByte(b, s) THEN SubSeq(s, 1, FirstAt(b, s) - 1) ELSE s

BaseName(n) == UpTo(LBRACKET, n)

ParamKey(n) == UpTo(RBRACKET, Drop(n, FirstAt(LBRACKET, n)))

(* The lines of record sb that declare the plain attribute n, and n[k]. *)
PlainLines(sb, n) ==
    {j \in 1..Len(sb.attrs) : sb.attrs[j].name = n /\ ~HasByte(LBRACKET, n)}

ParamLinesOf(sb, n) ==
    {j \in 1..Len(sb.attrs) :
        HasByte(LBRACKET, sb.attrs[j].name) /\ BaseName(sb.attrs[j].name) = n}

ParamLines(sb, n, k) == {j \in ParamLinesOf(sb, n) : ParamKey(sb.attrs[j].name) = k}

ParamKeys(sb, n) == {ParamKey(sb.attrs[j].name) : j \in ParamLinesOf(sb, n)}

BaseNames(sb) == {BaseName(sb.attrs[j].name) : j \in 1..Len(sb.attrs)}

(* The AttributeValue the declarations of n in record sb merge into. *)
MergedValue(sb, n) ==
    IF PlainLines(sb, n) = {} THEN None
    ELSE Some(sb.attrs[LastOf(PlainLines(sb, n))].value)

MergedParams(sb, n) ==
    IF ParamKeys(sb, n) = {} THEN None
    ELSE Some([k \in ParamKeys(sb, n) |-> sb.attrs[LastOf(ParamLines(sb, n, k))].value])

Merged(sb, n) == AttrValue(MergedValue(sb, n), MergedParams(sb, n))

AfterGet == pc = "built" /\ ret.op = "get"

PlainRoundTrips(ss, last_only) ==
    \A i \in Titled(ss, ret.section) : \A j \in PlainLines(ss[i], ret.attr) :
        (last_only => IsLast(i, Titled(ss, ret.section))
                      /\ IsLast(j, PlainLines(ss[i], ret.attr)))
            => ret.res = Returned(Some(ss[i].attrs[j].value))

(* C1, as stated: for any input that builds and holds, in a section S, a   *)
(* line A=V whose name has no bracketed parameter, get(S, A, None) is      *)
(* Some(V).                                                                *)
C1_AnyLineRoundTrips ==
    (AfterGet /\ ret.param = None) => PlainRoundTrips(Sections, FALSE)

(* C1, amended: get(S, A, None) is Some(V) for the line A=V that is the    *)
(* last plain declaration of A in the last section titled S.               *)
C1_LastLineRoundTrips ==
    (AfterGet /\ ret.param = None) => PlainRoundTrips(Sections, TRUE)

TwiceDeclared(ss) ==
    \E i \in Titled(ss, ret.section) :
        /\ IsLast(i, Titled(ss, ret.section))
        /\ Cardinality(PlainLines(ss[i], ret.attr)) >= 2
        /\ ret.res = Returned(Some(ss[i].attrs[LastOf(PlainLines(ss[i], ret.attr))].value))

(* A plain lookup has returned the value of a line that was declared twice. *)
C1_Witness == AfterGet /\ ret.param = None /\ TwiceDeclared(Sections)

Index == store.this.map[1]

IsMerged(ss, index) ==
    \A i \in 1..Len(ss) :
        IsLast(i, Titled(ss, ss[i].title)) =>
            /\ DOMAIN index[ss[i].title] = BaseNames(ss[i])
            /\ \A n \in BaseNames(ss[i]) : index[ss[i].title][n] = Merged(ss[i], n)

(* C2: in the built index, the attributes of a section are the base names  *)
(* it declares, each with one AttributeValue: value is the last plain      *)
(* declaration (absent if none), parameters[k] the last declaration of     *)
(* A[k], whatever the order of the declarations.                           *)
C2_MergeInvariant == pc = "built" => IsMerged(Sections, Index)

MergesThree(ss, index) ==
    \E i \in 1..Len(ss) : \E n \in BaseNames(ss[i]) :
        /\ Cardinality(PlainLines(ss[i], n)) >= 2
        /\ ParamKeys(ss[i], n) /= {}
        /\ index[ss[i].title][n].value /= None
        /\ index[ss[i].title][n].param_map /= None

(* A built section where A was declared plainly twice and with a parameter. *)
C2_Witness == pc = "built" /\ MergesThree(Sections, Index)

(* No record titled s declares the base name n / the parameter n[k]. *)
NoAttr(ss, s, n) == \A i \in Titled(ss, s) : n \notin BaseNames(ss[i])

NoParam(ss, s, n, k) == \A i \in Titled(ss, s) : k \notin ParamKeys(ss[i], n)

AbsentIsNone(ss) ==
    /\ (ret.op = "get" /\ NoAttr(ss, ret.section, ret.attr)) => ret.res.val = None
    /\ (ret.op = "get" /\ ret.param /= None
            /\ NoParam(ss, ret.section, ret.attr, ret.param[1])) => ret.res.val = None
    /\ (ret.op = "has_section" /\ Titled(ss, ret.section) = {}) => ret.res.val = Some(FALSE)
    /\ (ret.op = "has_attr" /\ NoAttr(ss, ret.section, ret.attr)) => ret.res.val = Some(FALSE)

(* C3: a store that was handed to the caller has its index installed; no   *)
(* lookup on it panics, and a section, attribute or parameter that the     *)
(* input does not declare is looked up as None (false for has_section and  *)
(* has_attr).                                                              *)
C3_AbsenceIsTotal ==
    pc = "built" =>
        /\ store.this.map /= None
        /\ ~ret.res.panic
        /\ AbsentIsNone(Sections)

PlainOnly(ss) ==
    \E i \in Titled(ss, ret.section) :
        PlainLines(ss[i], ret.attr) /= {} /\ ParamKeys(ss[i], ret.attr) = {}

(* A parameter was looked up on an attribute that has no parameter map. *)
C3_Witness ==
    /\ AfterGet /\ ret.param /= None
    /\ PlainOnly(Sections)
    /\ ret.res = Returned(None)

(***************************************************************************)
(* The shape of the bytes at a header, by position.                        *)
(***************************************************************************)
MinOf(P, n) == IF P = {} THEN n ELSE CHOOSE p \in P : \A q \in P : p <= q

(* The input from its first `[`: where next() looks for a section. *)
HeaderStart(r) == IF HasByte(LBRACKET, r) THEN Drop(r, FirstAt(LBRACKET, r) - 1) ELSE <<>>

(* Byte p is whitespace, or in a comment that began after byte k. *)
Skippable(h, k, p) ==
    \/ h[p] \in Whitespace
    \/ \E q \in (k + 1)..p : h[q] = HASH /\ \A t \in q..(p - 1) : h[t] /= NEWLINE

(* The first byte after k that is neither blank nor comment. *)
AfterSkips(h, k) == MinOf({p \in (k + 1)..Len(h) : ~Skippable(h, k, p)}, Len(h) + 1)

EndsOrOpens(h, p) == p > Len(h) \/ h[p] = LBRACKET

(* h is `[title]`, blanks and comments, and then the end or a `[`. *)
EmptySectionAt(h) ==
    /\ Len(h) >= 3 /\ h[1] = LBRACKET /\ h[2] /= RBRACKET
    /\ HasByte(RBRACKET, h)
    /\ EndsOrOpens(h, AfterSkips(h, FirstAt(RBRACKET, h)))

(***************************************************************************)
(* The shape of a document, by its pieces.                                 *)
(***************************************************************************)
HdrIdx(d) == {i \in 1..Len(d) : d[i].kind = "hdr"}

FirstHdr(d) == MinOf(HdrIdx(d), Len(d) + 1)

(* A preamble without `[`, then only headers, attribute lines, blanks and *)
(* comments.                                                               *)
Clean(d) ==
    \A i \in 1..Len(d) :
        IF i < FirstHdr(d) THEN ~HasByte(LBRACKET, Render(d[i]))
        ELSE d[i].kind \in {"hdr", "attr", "skip"}

(* Header i is followed by blanks and comments and then by the end or by *)
(* another header.                                                        *)
EmptyAfter(d, i) ==
    \E j \in i..Len(d) :
        /\ \A t \in (i + 1)..j : d[t].kind = "skip"
        /\ (j = Len(d) \/ d[j + 1].kind = "hdr")

HasEmptySection(d) ==
    \E i \in HdrIdx(d) : Clean(SubSeq(d, 1, i)) /\ EmptyAfter(d, i)

(* C4: a next() that finds a header followed, after blanks and comments,   *)
(* by the end of the input or by `[` returns a structural error and yields *)
(* no section; a build of an input with such a section fails with it.      *)
C4_ZeroAttributesRejected ==
    /\ [][(IterNext /\ EmptySectionAt(HeaderStart(rem)))
            => (item'.tag = "Err" /\ item'.error.type = "Other" /\ yielded' = yielded)]_vars
    /\ []((pc \in {"built", "failed"} /\ HasEmptySection(doc))
            => (store.state = "err" /\ store.err.type = "Other"))

(* next() has failed on a header without attributes that follows a good   *)
(* section.                                                               *)
C4_Witness ==
    /\ pc = "iter" /\ item.tag = "Err" /\ yielded /= <<>>
    /\ EmptySectionAt(HeaderStart(rem))
    /\ HasEmptySection(doc)

(***************************************************************************)
(* What next() yields for an input until it stops yielding sections: the   *)
(* sections, and the item (None or an error) that ended them.              *)
(***************************************************************************)
Outcome(ss, it) == [sections |-> ss, tag |-> it.tag, kind |-> it.error.kind]

RECURSIVE Drain(_, _)
DrainItem(n, acc) ==
    IF n.item.tag = "Ok" THEN Drain(n.it, Append(acc, n.item.section))
    ELSE Outcome(acc, n.item)

Drain(it, acc) == DrainItem(EntryIter_next(it), acc)

IsSkip(p) == p.kind = "skip"

NotSkip(p) == p.kind /= "skip"

StripSkips(d) == SelectSeq(d, NotSkip)

(* Every blank or comment piece comes after a header or after the newline *)
(* of an attribute line, at the end of a preamble without `[`, headers,   *)
(* attribute lines, blanks and comments.                                  *)
SkipsFollowLines(d) ==
    \A i \in 1..Len(d) : IsSkip(d[i]) => (i > FirstHdr(d) /\ Clean(SubSeq(d, 1, i)))

(* The call of next() that is the first not to yield a section. *)
LastCall == IterNext /\ (pc = "start" \/ item.tag = "Ok") /\ item'.tag /= "Ok"

Drained == pc = "iter" /\ item.tag /= "Ok"

(* C5: blanks and comment lines after a header or after the newline of an  *)
(* attribute line do not change what the tokenizer yields: the sections    *)
(* and the way they end are those of the input without them.               *)
C5_SkipsAreTransparent ==
    [][(LastCall /\ SkipsFollowLines(doc))
         => Outcome(yielded', item') = Drain(parse_entry(Flatten(StripSkips(doc))), <<>>)]_vars

(* A section came out of an input with a blank run and a comment in it. *)
C5_Witness ==
    /\ Drained /\ item.tag = "None" /\ yielded /= <<>>
    /\ SkipsFollowLines(doc)
    /\ \E i, j \in 1..Len(doc) :
         /\ IsSkip(doc[i]) /\ doc[i].a[1] = HASH
         /\ IsSkip(doc[j]) /\ doc[j].a[1] = SPACE

(* The parameter a raw name carries, by position: none without a `[`. *)
ParamOfName(n) ==
    IF HasByte(LBRACKET, n) THEN Some(ParamBytes(ParamKey(n), BaseName(n))) ELSE None

(* s occurs in t as a run of consecutive bytes. *)
Occurs(s, t) == \E k \in 0..(Len(t) - Len(s)) : SubSeq(t, k + 1, k + Len(s)) = s

(* Every yielded record whose raw name holds a `[` is a line name=value of *)
(* the input and carries the parameter of that name.                       *)
BracketsSplit(ss) ==
    \A i \in 1..Len(ss) : \A j \in 1..Len(ss[i].attrs) :
        HasByte(LBRACKET, ss[i].attrs[j].name) =>
            /\ Occurs(ss[i].attrs[j].name \o <<EQUALS>> \o ss[i].attrs[j].value, data)
            /\ ss[i].attrs[j].param = ParamOfName(ss[i].attrs[j].name)

(* A lookup of n[k] returns the last declaration of n[k] in the last       *)
(* section of that title; a plain lookup returns None where n is declared  *)
(* with parameters only.                                                   *)
ParamFiled(ss) ==
    \A i \in Titled(ss, ret.section) :
        IsLast(i, Titled(ss, ret.section)) =>
            /\ (ret.param /= None /\ ParamLines(ss[i], ret.attr, ret.param[1]) /= {})
                 => ret.res = Returned(Some(
                      ss[i].attrs[LastOf(ParamLines(ss[i], ret.attr, ret.param[1]))].value))
            /\ (ret.param = None /\ PlainLines(ss[i], ret.attr) = {})
                 => ret.res = Returned(None)

(* C6: a record whose raw name holds `[` keeps that name and carries the   *)
(* parameter (bytes before the first `[`, bytes between it and the first   *)
(* `]` after it); the index files its value under that base name and key   *)
(* and not as the plain value.                                             *)
C6_ParameterExtraction ==
    /\ BracketsSplit(yielded)
    /\ AfterGet => ParamFiled(Sections)

ParamOnly(ss) ==
    \E i \in Titled(ss, ret.section) :
        /\ IsLast(i, Titled(ss, ret.section))
        /\ ParamLines(ss[i], ret.attr, ret.param[1]) /= {}
        /\ PlainLines(ss[i], ret.attr) = {}

(* The value of A[p] was looked up in a section that declares no plain A. *)
C6_Witness ==
    /\ AfterGet /\ ret.param /= None
    /\ ParamOnly(Sections)
    /\ ret.res.val /= None

(* C7: when the input holds no `[` byte, next() yields no section and no  *)
(* error, and the build succeeds with a store of zero sections.           *)
C7_PreambleOnlyIsEmpty ==
    ~HasByte(LBRACKET, data) =>
        /\ (pc = "iter" => (item.tag = "None" /\ yielded = <<>>))
        /\ (pc \in {"built", "failed"} =>
                (store.state = "ok" /\ store.this.map = Some(EmptyMap)))

(***************************************************************************)
(* The byte slices of the records ss that a build decodes, and those the   *)
(* records name.                                                           *)
(***************************************************************************)
DecodedOfAttr(a) ==
    IF HasByte(LBRACKET, a.name) THEN {a.value, BaseName(a.name), ParamKey(a.name)}
    ELSE {a.value, a.name}

NamedByAttr(a) == {a.value, a.name} \cup DecodedOfAttr(a)

DecodedSlices(ss) ==
    UNION {{ss[i].title} \cup UNION {DecodedOfAttr(ss[i].attrs[j]) : j \in 1..Len(ss[i].attrs)}
             : i \in 1..Len(ss)}

NamedSlices(ss) ==
    UNION {{ss[i].title} \cup UNION {NamedByAttr(ss[i].attrs[j]) : j \in 1..Len(ss[i].attrs)}
             : i \in 1..Len(ss)}

Invalid(S) == {b \in S : ~from_utf8_ok(b)}

(* The texts an index holds: titles, names, values, keys, parameter values. *)
TextsOfValue(v) ==
    {v.value[i] : i \in 1..Len(v.value)}
      \cup (IF v.param_map = None THEN {}
          ELSE DOMAIN v.param_map[1]
                 \cup UNION {{v.param_map[1][k]} : k \in DOMAIN v.param_map[1]})

TextsOfAttrs(m) == DOMAIN m \cup UNION {TextsOfValue(m[n]) : n \in DOMAIN m}

TextsOf(index) == DOMAIN index \cup UNION {TextsOfAttrs(index[t]) : t \in DOMAIN index}

NoStore == store.state = "err" /\ store.this.map = None

(* A failed tokenization fails the build with the tokenizer's error. *)
TokenizerErrorIsFatal(tok) == ~tok.ok => (NoStore /\ store.err = tok.err)

(* An invalid slice among S fails the build with a decode error that holds *)
(* one of them.                                                            *)
DecodeErrorIsFatal(tok, S) ==
    (tok.ok /\ Invalid(S) /= {})
        => (NoStore /\ store.err.type = "Utf8Error" /\ store.err.bytes \in Invalid(S))

(* A returned store indexes every section and holds only valid UTF-8. *)
StoreIsWhole(tok) ==
    store.state = "ok" =>
        /\ tok.ok /\ store.this.map /= None
        /\ \A i \in 1..Len(tok.sections) : tok.sections[i].title \in DOMAIN store.this.map[1]
        /\ Invalid(TextsOf(store.this.map[1])) = {}

AfterBuild == pc \in {"built", "failed"}

AtomicBuild(tok, S) ==
    /\ TokenizerErrorIsFatal(tok)
    /\ DecodeErrorIsFatal(tok, S)
    /\ StoreIsWhole(tok)

IsLine(p) == p.kind \in {"attr", "attr_eof"}

TitleOk(t) == t /= <<>> /\ ~HasByte(RBRACKET, t)

NameOk(n) ==
    /\ ~HasByte(EQUALS, n) /\ ~HasByte(NEWLINE, n)
    /\ (n = <<>> \/ n[1] \notin (Whitespace \cup {HASH, LBRACKET}))

ValueOk(v) == ~HasByte(NEWLINE, v)

PieceOk(p) ==
    CASE p.kind = "hdr" -> TitleOk(p.a)
      [] IsLine(p) -> NameOk(p.a) /\ ValueOk(p.b)
      [] OTHER -> TRUE

(* A preamble without `[`; then headers, each followed after blanks and    *)
(* comments by an attribute line; attribute lines, blanks and comments;    *)
(* only the last line may lack its newline.                                *)
WellFormedDoc(d) ==
    /\ \A i \in 1..Len(d) :
         IF i < FirstHdr(d) THEN ~HasByte(LBRACKET, Render(d[i]))
         ELSE /\ PieceOk(d[i])
              /\ (d[i].kind \in {"hdr", "attr", "skip"}
                    \/ (d[i].kind = "attr_eof" /\ i = Len(d)))
    /\ \A i \in HdrIdx(d) : ~EmptyAfter(d, i)

(* The records declared by the pieces of d from the i-th on, after acc. *)
Put(p, acc) ==
    CASE p.kind = "hdr" -> Append(acc, SectionBytes(p.a, <<>>))
      [] IsLine(p) /\ acc /= <<>> ->
            [acc EXCEPT ![Len(acc)].attrs = Append(@, AttrBytes(p.a, p.b, ParamOfName(p.a)))]
      [] OTHER -> acc

RECURSIVE Expect(_, _, _)
Expect(d, i, acc) == IF i > Len(d) THEN acc ELSE Expect(d, i + 1, Put(d[i], acc))

(* C9: for a well-formed input the calls of next() yield one record per    *)
(* header, in file order, titled by the bytes between `[` and the next     *)
(* `]`, holding one attribute per attribute line in file order with name   *)
(* the bytes before the first `=` and value the bytes after it up to the   *)
(* newline, untrimmed, and a parameter only for a name with `[`; the       *)
(* sequence of an input with a header then ends with None.                 *)
C9_WellFormedTokenization ==
    [][(LastCall /\ WellFormedDoc(doc))
         => /\ yielded' = Expect(doc, 1, <<>>)
            /\ (HdrIdx(doc) /= {} => item'.tag = "None")]_vars

(* Two sections were yielded from a well-formed input, with an empty name *)
(* and a value that begins with a space among their attributes.           *)
C9_Witness ==
    /\ Drained /\ item.tag = "None" /\ WellFormedDoc(doc)
    /\ Len(yielded) = 2
    /\ \E j \in 1..Len(yielded[2].attrs) : yielded[2].attrs[j].name = <<>>
    /\ \E j \in 1..Len(yielded[2].attrs) :
         yielded[2].attrs[j].value /= <<>> /\ yielded[2].attrs[j].value[1] = SPACE

(* C10: once next() is being called, some call returns None. *)
C10_NextReachesNone == (pc = "iter") ~> (pc = "iter" /\ item.tag = "None")

(* A call of next() made after a call that returned an error. *)
CallAfterError == IterNext /\ pc = "iter" /\ item.tag = "Err"

Lists(r, S) ==
    /\ ~r.panic /\ r.val /= None
    /\ Len(r.val[1]) = Cardinality(S)
    /\ {r.val[1][i] : i \in 1..Len(r.val[1])} = S

Titles(ss) == {ss[i].title : i \in 1..Len(ss)}

(* The last record titled s. *)
LastTitled(ss, s) == ss[LastOf(Titled(ss, s))]

IsTrue(r) == r = Returned(Some(TRUE))

SectionNamesAreTitles(ss) ==
    /\ Lists(ret.res, Titles(ss))
    /\ \A s \in QSections \cup Titles(ss) : (s \in Titles(ss)) <=> IsTrue(has_section(store.this, s))

AttrNamesAreBaseNames(ss) ==
    IF Titled(ss, ret.section) = {} THEN ret.res = Returned(None)
    ELSE /\ Lists(ret.res, BaseNames(LastTitled(ss, ret.section)))
         /\ \A a \in QAttrs \cup BaseNames(LastTitled(ss, ret.section)) :
              (a \in BaseNames(LastTitled(ss, ret.section)))
                 <=> IsTrue(has_attr(store.this, ret.section, a))

ParamNamesAreKeys(ss) ==
    IF Titled(ss, ret.section) = {} THEN ret.res = Returned(None)
    ELSE IF ParamKeys(LastTitled(ss, ret.section), ret.attr) = {} THEN ret.res = Returned(None)
    ELSE Lists(ret.res, ParamKeys(LastTitled(ss, ret.section), ret.attr))

(* C12: on a built store section_names() lists each distinct title once,   *)
(* attribute_names(S) each distinct base name of S once (None when S is    *)
(* absent), parameter_keys(S, A) each distinct key of A once (None when S  *)
(* or A is absent or A has no parameterized declaration); the listing is a *)
(* function of the input alone, and a name is listed iff has_section /     *)
(* has_attr is true for it.                                                *)
C12_IterationEqualsKeySets ==
    pc = "built" =>
        /\ ret.op = "section_names" => SectionNamesAreTitles(Sections)
        /\ ret.op = "attr_names" => AttrNamesAreBaseNames(Sections)
        /\ ret.op = "param_names" => ParamNamesAreKeys(Sections)

(* parameter_keys has listed two keys. *)
C12_Witness ==
    /\ pc = "built" /\ ret.op = "param_names"
    /\ ret.res.val /= None /\ Len(ret.res.val[1]) = 2

(* Piece i is a stray line that follows the attribute lines of a section: *)
(* the pieces before it are a well-formed document with a header, every   *)
(* line of it ended by its newline.                                        *)
StrayAt(d, i) ==
    /\ d[i].kind = "raw"
    /\ HdrIdx(SubSeq(d, 1, i - 1)) /= {}
    /\ WellFormedDoc(SubSeq(d, 1, i - 1))
    /\ \A j \in 1..(i - 1) : d[j].kind /= "attr_eof"

HasStray(d) == \E i \in 1..Len(d) : StrayAt(d, i)

(* No attribute of the records ss holds a newline in its name. *)
NoneAbsorbed(ss) ==
    \A i \in 1..Len(ss) : \A j \in 1..Len(ss[i].attrs) : ~HasByte(NEWLINE, ss[i].attrs[j].name)

(* C13: when a line without `=` follows the attribute lines of a section,  *)
(* the calls of next() end with an error, and no yielded attribute has     *)
(* taken that line, with what follows it, into its name.                   *)
C13_StrayContentFails ==
    [][(LastCall /\ HasStray(doc)) => (item'.tag = "Err" /\ NoneAbsorbed(yielded'))]_vars

(* The name n holds a `[` with no `]` after it. *)
Unclosed(n) == HasByte(LBRACKET, n) /\ ~HasByte(RBRACKET, Drop(n, FirstAt(LBRACKET, n)))

(* C14: a yielded attribute (its line has parsed without error) whose name *)
(* holds a `[` with no `]` after it carries no parameter.                  *)
C14_UnclosedBracketIsNone ==
    \A i \in 1..Len(yielded) : \A j \in 1..Len(yielded[i].attrs) :
        Unclosed(yielded[i].attrs[j].name) => yielded[i].attrs[j].param = None

(* h begins a header that no `]` closes. *)
Unterminated(h) == h /= <<>> /\ ~HasByte(RBRACKET, h)

(* A call of next() that finds a header which no `]` closes. *)
CallAtUnterminated == IterNext /\ rem /= <<>> /\ Unterminated(HeaderStart(rem))

(* Piece i opens a header after a well-formed document, and no `]` follows. *)
CutHeaderAt(d, i) ==
    /\ d[i].kind = "raw" /\ d[i].a[1] = LBRACKET
    /\ WellFormedDoc(SubSeq(d, 1, i - 1))
    /\ \A j \in 1..(i - 1) : d[j].kind /= "attr_eof"
    /\ ~HasByte(RBRACKET, Flatten(SubSeq(d, i, Len(d))))

HasCutHeader(d) == \E i \in 1..Len(d) : CutHeaderAt(d, i)

StructuralAtEnd(e) == e.type = "Other" /\ e.bytes = <<>>

(* C15: a next() that finds a `[` with no `]` anywhere after it returns a  *)
(* structural error (Other) whose remaining input is empty and yields no   *)
(* section; a build of such an input fails with that error.                *)
C15_UnterminatedHeader ==
    /\ [][CallAtUnterminated
            => (item'.tag = "Err" /\ StructuralAtEnd(item'.error) /\ yielded' = yielded)]_vars
    /\ []((AfterBuild /\ HasCutHeader(doc))
            => (store.state = "err" /\ StructuralAtEnd(store.err)))

(* next() has failed on an unterminated header that follows a good section. *)
C15_Witness ==
    /\ pc = "iter" /\ item.tag = "Err" /\ StructuralAtEnd(item.error)
    /\ Len(yielded) = 1
    /\ Unterminated(HeaderStart(rem)) /\ Len(HeaderStart(rem)) >= 2

(* C16: a next() that finds the input ended inside a header (no `]` after  *)
(* its `[`) reports the truncated-input kind, Incomplete, not Other.       *)
C16_TruncationIsIncomplete ==
    [][CallAtUnterminated => (item'.tag = "Err" /\ item'.error.type = "Incomplete")]_vars

(* Record sb declares n with parameters only / plainly only. *)
ParamOnlyIn(sb, n) == ParamLinesOf(sb, n) /= {} /\ PlainLines(sb, n) = {}

PlainOnlyIn(sb, n) == PlainLines(sb, n) /= {} /\ ParamLinesOf(sb, n) = {}

(* What the store answers about the item a of section s, declared by sb. *)
ParamOnlyAnswers(s, a) ==
    /\ ~has_value(a) /\ has_params(a) /\ a.value = None
    /\ IsTrue(has_attr(store.this, s, a.name))
    /\ get(store.this, s, a.name, None) = Returned(None)

PlainOnlyAnswers(s, a) ==
    /\ has_value(a) /\ ~has_params(a)
    /\ param_names_iter(store.this, s, a.name) = Returned(None)

AttrsTellKinds(s, sb, items) ==
    /\ {items[i].name : i \in 1..Len(items)} = BaseNames(sb)
    /\ \A i \in 1..Len(items) :
         /\ ParamOnlyIn(sb, items[i].name) => ParamOnlyAnswers(s, items[i])
         /\ PlainOnlyIn(sb, items[i].name) => PlainOnlyAnswers(s, items[i])

(* C17: in a built store an attribute whose declarations in S all carry a  *)
(* parameter is listed by the attributes of S, has_attr is true for it,    *)
(* its plain value is None (has_value false, has_params true); one that is *)
(* declared only plainly has has_params false and no parameter keys.       *)
C17_ParameterOnlyAttributes ==
    (pc = "built" /\ ret.op = "attrs" /\ Titled(Sections, ret.section) /= {})
        => AttrsTellKinds(ret.section, LastTitled(Sections, ret.section), ret.res.val[1])

(* The attributes of a section were listed: one with parameters only, one *)
(* plain only.                                                            *)
C17_Witness ==
    /\ pc = "built" /\ ret.op = "attrs"
    /\ \E i, j \in 1..Len(ret.res.val[1]) :
         /\ ~has_value(ret.res.val[1][i]) /\ has_params(ret.res.val[1][i])
         /\ has_value(ret.res.val[1][j]) /\ ~has_params(ret.res.val[1][j])

(* The base name n is declared under the title s, but not in the last *)
(* record of that title.                                              *)
EarlierOnly(ss, s, n) ==
    /\ \E i \in Titled(ss, s) : n \in BaseNames(ss[i])
    /\ n \notin BaseNames(LastTitled(ss, s))

SomeEarlierOnly(ss, s) ==
    \E i \in Titled(ss, s) : \E n \in BaseNames(ss[i]) : EarlierOnly(ss, s, n)

LastSectionOnly(ss, index) ==
    /\ \A s \in Titles(ss) : DOMAIN index[s] = BaseNames(LastTitled(ss, s))
    /\ (ret.op = "get" /\ EarlierOnly(ss, ret.section, ret.attr)) => ret.res = Returned(None)
    /\ (ret.op = "has_attr" /\ EarlierOnly(ss, ret.section, ret.attr))
          => ret.res = Returned(Some(FALSE))
    /\ (ret.op = "attr_names" /\ SomeEarlierOnly(ss, ret.section))
          => /\ ret.res.val /= None
             /\ \A i \in 1..Len(ret.res.val[1]) :
                  ~EarlierOnly(ss, ret.section, ret.res.val[1][i])

(* C18: when a title stands on several headers, the built index holds for  *)
(* it the attributes of the last such section only: an attribute declared  *)
(* only in an earlier one is None for get, false for has_attr and not      *)
(* listed by attribute_names.                                              *)
C18_DuplicateTitlesReplace == pc = "built" => LastSectionOnly(Sections, Index)

(* has_attr was false for an attribute that an earlier section of the same *)
(* title declares.                                                         *)
C18_Witness ==
    /\ pc = "built" /\ ret.op = "has_attr" /\ ret.res = Returned(Some(FALSE))
    /\ EarlierOnly(Sections, ret.section, ret.attr)

====
